---- MODULE Spec2Model ----
(***************************************************************************)
(* A model of the public surface of the font crate (src/src/lib.rs):       *)
(*   - parse: the container dispatcher on the four magic bytes             *)
(*   - Value: the interpreter operand and its conversions                  *)
(*   - State: the interpreter's operand stack (new / push / pop / args)    *)
(*   - Context: biased subroutine lookup through TryIndex                  *)
(*   - Font: the trait's provided methods, Glyphs, and draw_text           *)
(* Each part has its own specification (SpecParse, SpecValue, SpecState,   *)
(* SpecContext, SpecFont, SpecDraw) over the variables of that part; the   *)
(* variables of the other parts stay at their idle values.                 *)
(*                                                                         *)
(* Rust outcomes: a call either returns a value or panics.  A panic is     *)
(* modelled as the record Panic(msg); Option<T> as None / Some(x).         *)
(***************************************************************************)
EXTENDS Integers, Sequences, FiniteSets, TLC

VARIABLES
    \* parse
    data, twin, result, twinResult,
    \* Value
    val, conv,
    \* State
    state, lastOp,
    \* Context
    ctx, overflow_checks, lookup,
    \* Font, Glyphs
    font, ret, glyphsObj,
    \* draw_text
    text, cursor, last_gid, offset, glyphs, dpc, surface

parseVars == <<data, twin, result, twinResult>>
valueVars == <<val, conv>>
stateVars == <<state, lastOp>>
ctxVars == <<ctx, overflow_checks, lookup>>
fontVars == <<font, ret, glyphsObj>>
drawVars == <<text, cursor, last_gid, offset, glyphs, dpc, surface>>
vars == <<parseVars, valueVars, stateVars, ctxVars, fontVars, drawVars>>

(***************************************************************************)
(* Outcomes and options.                                                   *)
(***************************************************************************)
None == [some |-> FALSE]
Some(x) == [some |-> TRUE, val |-> x]

NotCalled == [kind |-> "none"]
Ok(x) == [kind |-> "ok", val |-> x]
Panic(msg) == [kind |-> "panic", msg |-> msg]

\* Sequences over S of length 0 .. n.
SeqUpTo(S, n) == UNION {[1..k -> S] : k \in 0..n}

(***************************************************************************)
(* parse (lib.rs 305-319).                                                 *)
(***************************************************************************)
\* The ASCII magics of the match arms.
OTTO == <<79, 84, 84, 79>>
ttcf == <<116, 116, 99, 102>>
typ1 == <<116, 121, 112, 49>>
true == <<116, 114, 117, 101>>
PctBangPS == <<37, 33, 80, 83>>
wOFF == <<119, 79, 70, 70>>
wOF2 == <<119, 79, 70, 50>>

\* One predicate per match arm's pattern, on the 4-byte magic.
IsPfb(magic) == magic[1] = 128 /\ magic[2] = 1
IsOpenType(magic) == magic = OTTO \/ magic = <<0, 1, 0, 0>>
\* The collection pattern without its second alternative.
IsCollectionTtcfOnly(magic) == magic = ttcf
IsCollection(magic) == magic = ttcf \/ magic = typ1
IsTrueType(magic) == magic = true
IsPostScript(magic) == magic = PctBangPS
IsWoff(magic) == magic = wOFF
IsWoff2(magic) == magic = wOF2
\* The last pattern with a looser first byte.
IsCffLoose(magic) == magic[1] \in {0, 1}
IsCff(magic) == magic[1] = 1

\* A call of a format decoder with the whole input.
Call(decoder, d) == [kind |-> "call", decoder |-> decoder, data |-> d]

\* The match: arms are tried in source order, the first matching arm wins.
parse(d) ==
    IF Len(d) < 4 THEN Panic("range end index 4 out of range for slice")
    ELSE LET magic == SubSeq(d, 1, 4) IN
        IF IsPfb(magic) THEN Call("Type1Font::parse_pfb", d)
        ELSE IF IsOpenType(magic) THEN Call("parse_opentype", d)
        ELSE IF IsCollection(magic) THEN Panic("not implemented")  \* unimplemented!()
        ELSE IF IsTrueType(magic) THEN Call("TrueTypeFont::parse", d)
        ELSE IF IsPostScript(magic) THEN Call("Type1Font::parse_postscript", d)
        ELSE IF IsWoff(magic) THEN Call("woff", d)
        ELSE IF IsWoff2(magic) THEN Call("woff2", d)
        ELSE IF IsCff(magic) THEN Call("CffFont::parse", d)
        ELSE Panic("unknown magic")

\* Inputs: every magic of the table and some unknown ones, each with one byte
\* replaced by a sample byte, followed by a tail; and the truncated inputs.
MaxTail == 1
SampleBytes ==
    {0, 1, 2, 127, 128, 129, 255, 222, 173, 190, 239,
     79, 84, 116, 99, 102, 121, 112, 49, 114, 117, 101,
     37, 33, 80, 83, 119, 70, 50}
TailBytes == {0, 1}
BaseMagics ==
    {OTTO, ttcf, typ1, true, PctBangPS, wOFF, wOF2,
     <<0, 1, 0, 0>>, <<128, 1, 1, 0>>, <<1, 0, 4, 1>>,
     <<222, 173, 190, 239>>, <<0, 0, 0, 0>>}
Magics ==
    {[m EXCEPT ![i] = b] : m \in BaseMagics, i \in 1..4, b \in SampleBytes}
Tails == SeqUpTo(TailBytes, MaxTail)
ShortInputs == {SubSeq(m, 1, k) : m \in BaseMagics, k \in 0..3}

IdleParse ==
    /\ data = <<>> /\ twin = <<>>
    /\ result = NotCalled /\ twinResult = NotCalled

InitParseVars ==
    /\ \/ \E m \in Magics, t \in Tails : data = m /\ twin = m \o t
       \/ \E s \in ShortInputs : data = s /\ twin = s
    /\ result = NotCalled
    /\ twinResult = NotCalled

ParseData ==
    /\ result = NotCalled
    /\ result' = parse(data)
    /\ UNCHANGED <<data, twin, twinResult>>

ParseTwin ==
    /\ twinResult = NotCalled
    /\ twinResult' = parse(twin)
    /\ UNCHANGED <<data, twin, result>>

NextParse ==
    \/ ParseData /\ UNCHANGED <<valueVars, stateVars, ctxVars, fontVars, drawVars>>
    \/ ParseTwin /\ UNCHANGED <<valueVars, stateVars, ctxVars, fontVars, drawVars>>

(***************************************************************************)
(* Value (lib.rs 138-192).                                                 *)
(* An f32 is modelled by the number it denotes, as a canonical dyadic      *)
(* m * 2^e with m odd (or m = 0, e = 0); a finite f32 is a dyadic whose    *)
(* |m| < 2^F32_MANTISSA_DIGITS.                                            *)
(***************************************************************************)
I32_MAX == 2147483647
I32_MIN == -I32_MAX - 1
F32_MANTISSA_DIGITS == 24

RECURSIVE Pow2(_)
Pow2(n) == IF n = 0 THEN 1 ELSE 2 * Pow2(n - 1)

RECURSIVE BitLen(_)
BitLen(a) == IF a = 0 THEN 0 ELSE 1 + BitLen(a \div 2)

RECURSIVE Dyadic(_, _)
Dyadic(m, e) ==
    IF m = 0 THEN [m |-> 0, e |-> 0]
    ELSE IF m % 2 = 0 THEN Dyadic(m \div 2, e + 1)
    ELSE [m |-> m, e |-> e]

\* The number i itself, as a dyadic (no rounding).
Exact(i) == Dyadic(i, 0)

\* `i as f32` with a significand of `digits` bits: round to nearest, ties to even.
RoundToDigits(i, digits) ==
    IF i = I32_MIN THEN Dyadic(i, 0)
    ELSE LET a == IF i < 0 THEN -i ELSE i
             sign == IF i < 0 THEN -1 ELSE 1
             bits == BitLen(a)
         IN IF bits <= digits THEN Dyadic(i, 0)
            ELSE LET shift == bits - digits
                     ulp == Pow2(shift)
                     q == a \div ulp
                     r == a % ulp
                     half == ulp \div 2
                     up == r > half \/ (r = half /\ q % 2 = 1)
                 IN Dyadic(sign * (IF up THEN q + 1 ELSE q), shift)

IntAsF32(i) == RoundToDigits(i, F32_MANTISSA_DIGITS)

ValueInt(i) == [tag |-> "Int", i |-> i]
ValueFloat(f) == [tag |-> "Float", f |-> f]

\* From<i16>, From<i32>, From<f32> for Value.
From_i16(v) == ValueInt(v)
From_i32(v) == ValueInt(v)
From_f32(v) == ValueFloat(v)

\* A float truncated toward zero to an integer (used by no conversion of Value).
Trunc(f) ==
    IF f.e >= 0 THEN f.m * Pow2(f.e)
    ELSE LET d == Pow2(-f.e)
             a == IF f.m < 0 THEN -f.m ELSE f.m
         IN (IF f.m < 0 THEN -1 ELSE 1) * (a \div d)

\* A to_int that coerces a float by truncation instead of failing.
to_int_coercing(v) ==
    IF v.tag = "Int" THEN Ok(v.i) ELSE Ok(Trunc(v.f))

to_int(v) ==
    IF v.tag = "Int" THEN Ok(v.i)
    ELSE Panic("tried to cast a float to int")

to_uint(v) ==
    IF v.tag = "Int" /\ v.i >= 0 THEN Ok(v.i)
    ELSE IF v.tag = "Int" THEN Panic("expected a unsigned int")
    ELSE Panic("tried to cast a float to int")

\* A to_float through an 11-bit significand (a half-precision float).
to_float_half(v) ==
    IF v.tag = "Int" THEN RoundToDigits(v.i, 11) ELSE v.f

to_float(v) ==
    IF v.tag = "Int" THEN IntAsF32(v.i) ELSE v.f

\* impl Into<f32> for Value
into_f32(v) == to_float(v)

\* Inputs: integers around 0, around +-2^24, +-2^25 and 2^30, and the ends of i32;
\* floats with integral and fractional values.
Window == 6
Around(c) == (c - Window) .. (c + Window)
IntInputs ==
    Around(0) \cup Around(Pow2(24)) \cup Around(-Pow2(24))
    \cup Around(Pow2(25)) \cup Around(-Pow2(25)) \cup Around(Pow2(30))
    \cup {I32_MIN + k : k \in 0..Window} \cup {I32_MAX - k : k \in 0..Window}
FloatInputs ==
    {Dyadic(0, 0), Dyadic(1, 0), Dyadic(1, 1), Dyadic(-3, 0), Dyadic(3, -1),
     Dyadic(-5, -2), Dyadic(1, 24), Dyadic(1, 31), Dyadic(-1, 40)}
ValueInputs == {ValueInt(i) : i \in IntInputs} \cup {ValueFloat(f) : f \in FloatInputs}

IdleValue == val = ValueInt(0) /\ conv = NotCalled

InitValueVars == val \in ValueInputs /\ conv = NotCalled

ToInt ==
    /\ conv = NotCalled
    /\ conv' = [kind |-> "done", op |-> "to_int", out |-> to_int(val)]
    /\ UNCHANGED val

ToUint ==
    /\ conv = NotCalled
    /\ conv' = [kind |-> "done", op |-> "to_uint", out |-> to_uint(val)]
    /\ UNCHANGED val

ToFloat ==
    /\ conv = NotCalled
    /\ conv' = [kind |-> "done", op |-> "to_float", out |-> Ok(to_float(val))]
    /\ UNCHANGED val

IntoF32 ==
    /\ conv = NotCalled
    /\ conv' = [kind |-> "done", op |-> "into_f32", out |-> Ok(into_f32(val))]
    /\ UNCHANGED val

NextValue ==
    \/ ToInt /\ UNCHANGED <<parseVars, stateVars, ctxVars, fontVars, drawVars>>
    \/ ToUint /\ UNCHANGED <<parseVars, stateVars, ctxVars, fontVars, drawVars>>
    \/ ToFloat /\ UNCHANGED <<parseVars, stateVars, ctxVars, fontVars, drawVars>>
    \/ IntoF32 /\ UNCHANGED <<parseVars, stateVars, ctxVars, fontVars, drawVars>>

(***************************************************************************)
(* State (lib.rs 239-282): the interpreter state.  Only the operand stack  *)
(* is touched by push / pop / args; path and current are geometry and are  *)
(* left out.                                                               *)
(***************************************************************************)
\* State::new()
State_new ==
    [stack |-> <<>>, lsb |-> None, char_width |-> None, done |-> FALSE,
     stem_hints |-> 0, delta_width |-> None,
     first_stack_clearing_operator |-> TRUE]

\* State::push: Vec::push of the converted value.
push(s, v) == [s EXCEPT !.stack = Append(s.stack, v)]

\* State::pop: the State after the call and the outcome.
pop(s) ==
    IF Len(s.stack) = 0
    THEN [state |-> s, out |-> Panic("no value on the stack")]
    ELSE [state |-> [s EXCEPT !.stack = SubSeq(s.stack, 1, Len(s.stack) - 1)],
          out |-> Ok(s.stack[Len(s.stack)])]

\* State::args::<T>() with T::N = n: the first n entries, the stack unchanged;
\* from_iter yields None on a shorter stack, and the unwrap panics.
args(s, n) ==
    IF Len(s.stack) >= n THEN Ok(SubSeq(s.stack, 1, n))
    ELSE Panic("called Option::unwrap() on a None value")

\* Model bounds: pushes stop at MaxDepth entries; at most MaxFloats of them
\* are floats.
MaxDepth == 50
MaxFloats == 1
ArgCounts == {0, 1, 2}
NumFloats(st) == Cardinality({k \in 1..Len(st) : st[k].tag = "Float"})

IdleState == state = State_new /\ lastOp = NotCalled

InitStateVars == state = State_new /\ lastOp = [kind |-> "done", op |-> "new"]

New ==
    /\ state' = State_new
    /\ lastOp' = [kind |-> "done", op |-> "new"]

PushInt ==
    /\ lastOp.kind = "done"
    /\ Len(state.stack) < MaxDepth
    /\ \E i \in {7} :
        /\ state' = push(state, From_i32(i))
        /\ lastOp' = [kind |-> "done", op |-> "push", before |-> Len(state.stack)]

PushFloat ==
    /\ lastOp.kind = "done"
    /\ Len(state.stack) < MaxDepth
    /\ NumFloats(state.stack) < MaxFloats
    /\ \E f \in {Dyadic(3, -1)} :
        /\ state' = push(state, From_f32(f))
        /\ lastOp' = [kind |-> "done", op |-> "push", before |-> Len(state.stack)]

Pop ==
    /\ lastOp.kind = "done"
    /\ LET r == pop(state) IN
        /\ state' = r.state
        /\ lastOp' = IF r.out.kind = "ok"
                     THEN [kind |-> "done", op |-> "pop", out |-> r.out]
                     ELSE [kind |-> "panicked", op |-> "pop", out |-> r.out]

Args ==
    /\ lastOp.kind = "done"
    /\ \E n \in ArgCounts :
        LET r == args(state, n) IN
        /\ lastOp' = IF r.kind = "ok"
                     THEN [kind |-> "done", op |-> "args", out |-> r]
                     ELSE [kind |-> "panicked", op |-> "args", out |-> r]
        /\ UNCHANGED state

NextState ==
    \/ New /\ UNCHANGED <<parseVars, valueVars, ctxVars, fontVars, drawVars>>
    \/ PushInt /\ UNCHANGED <<parseVars, valueVars, ctxVars, fontVars, drawVars>>
    \/ PushFloat /\ UNCHANGED <<parseVars, valueVars, ctxVars, fontVars, drawVars>>
    \/ Pop /\ UNCHANGED <<parseVars, valueVars, ctxVars, fontVars, drawVars>>
    \/ Args /\ UNCHANGED <<parseVars, valueVars, ctxVars, fontVars, drawVars>>

(***************************************************************************)
(* TryIndex and Context (lib.rs 198-237).                                  *)
(* i32 keeps its width: `idx + bias` overflows outside I32_MIN..I32_MAX,   *)
(* which panics in a build with overflow checks and wraps in one without.  *)
(* A usize is modelled as [high, n]: high is set for the values a negative *)
(* i32 casts to (2^BITS + v), which exceed the length of any Vec.          *)
(***************************************************************************)
AddOverflowsUp(a, b) == a > 0 /\ b > 0 /\ a > I32_MAX - b
AddOverflowsDown(a, b) == a < 0 /\ b < 0 /\ a < I32_MIN - b

\* a + b modulo 2^32, as an i32.
WrappingAdd(a, b) ==
    IF AddOverflowsUp(a, b) THEN (a - I32_MAX - 1) + (b - I32_MAX - 1)
    ELSE IF AddOverflowsDown(a, b) THEN (a + I32_MAX + 1) + (b + I32_MAX + 1)
    ELSE a + b

\* The `+` of i32 under the build's overflow-checks setting.
AddI32(a, b, checks) ==
    IF checks /\ (AddOverflowsUp(a, b) \/ AddOverflowsDown(a, b))
    THEN Panic("attempt to add with overflow")
    ELSE Ok(WrappingAdd(a, b))

\* `v as usize` for an i32 v.
AsUsize(v) == IF v >= 0 THEN [high |-> FALSE, n |-> v] ELSE [high |-> TRUE, n |-> v]

\* The collections: `()` and the slice/Vec implementations (all `get`).
Unit == [unit |-> TRUE]
VecOf(items) == [unit |-> FALSE, items |-> items]

try_index(coll, idx) ==
    IF coll.unit THEN None
    ELSE IF ~idx.high /\ idx.n < Len(coll.items) THEN Some(coll.items[idx.n + 1])
    ELSE None

\* The shared body of Context::subr and Context::global_subr.
Lookup(coll, bias, idx, checks, msg) ==
    LET sum == AddI32(idx, bias, checks) IN
    IF sum.kind = "panic" THEN sum
    ELSE LET r == try_index(coll, AsUsize(sum.val)) IN
         IF r.some THEN Ok(r.val) ELSE Panic(msg)

subr(c, idx, checks) ==
    Lookup(c.subrs, c.subr_bias, idx, checks, "requested subroutine not found")

global_subr(c, idx, checks) ==
    Lookup(c.global_subrs, c.global_subr_bias, idx, checks,
           "requested global subroutine not found")

\* Inputs.  Local body k is <<k>>, global body k is <<100 + k>>.
MaxSubrs == 2
Biases == {I32_MIN, -107, -1, 0, 1, 107, I32_MAX}
Indices ==
    {k - b : b \in Biases \ {I32_MIN}, k \in (-1)..MaxSubrs}
    \cup {I32_MIN, I32_MIN + 1, I32_MAX}
LocalColls == {Unit} \cup {VecOf([k \in 1..n |-> <<k - 1>>]) : n \in 0..MaxSubrs}
GlobalColls == {Unit} \cup {VecOf([k \in 1..n |-> <<99 + k>>]) : n \in 0..MaxSubrs}
Contexts ==
    [subr_bias : Biases, subrs : LocalColls,
     global_subrs : GlobalColls, global_subr_bias : Biases]

IdleContext ==
    /\ ctx = [subr_bias |-> 0, subrs |-> Unit, global_subrs |-> Unit,
              global_subr_bias |-> 0]
    /\ overflow_checks = FALSE
    /\ lookup = NotCalled

InitContextVars ==
    /\ ctx \in Contexts
    /\ overflow_checks \in BOOLEAN
    /\ lookup = NotCalled

Subr ==
    /\ lookup = NotCalled
    /\ \E idx \in Indices :
        lookup' = [kind |-> "done", fn |-> "subr", idx |-> idx,
                   out |-> subr(ctx, idx, overflow_checks)]
    /\ UNCHANGED <<ctx, overflow_checks>>

GlobalSubr ==
    /\ lookup = NotCalled
    /\ \E idx \in Indices :
        lookup' = [kind |-> "done", fn |-> "global_subr", idx |-> idx,
                   out |-> global_subr(ctx, idx, overflow_checks)]
    /\ UNCHANGED <<ctx, overflow_checks>>

NextContext ==
    \/ Subr /\ UNCHANGED <<parseVars, valueVars, stateVars, fontVars, drawVars>>
    \/ GlobalSubr /\ UNCHANGED <<parseVars, valueVars, stateVars, fontVars, drawVars>>

(***************************************************************************)
(* Font, Glyphs (lib.rs 12-74).                                            *)
(* A font is the record of what its variant's methods answer:              *)
(*   num_glyphs, glyph (gid -> Option<Glyph>), encoding (Option of an      *)
(*   Encoding with an optional reverse map), gid_for_codepoint, notdef,    *)
(*   kerning and bbox.  The trait's defaults are: no encoding, no gid for  *)
(*   any codepoint, notdef 0, kerning 0.0, no bbox.                        *)
(* Lengths are integers (font design units).                               *)
(***************************************************************************)
num_glyphs(f) == f.num_glyphs

glyph(f, gid) == IF gid \in DOMAIN f.glyph THEN f.glyph[gid] ELSE None

gid_for_codepoint(f, cp) ==
    IF cp \in DOMAIN f.gid_for_codepoint THEN f.gid_for_codepoint[cp] ELSE None

encoding(f) == f.encoding

\* Encoding::reverse_map and the reverse map's get.
reverse_map(enc) == enc.reverse_map
reverse_get(reverse, codepoint) ==
    IF codepoint \in DOMAIN reverse THEN reverse[codepoint] ELSE None

\* The chain without the reverse map: the Unicode codepoint used as the
\* encoding's codepoint.
gid_for_unicode_codepoint_direct(f, codepoint) ==
    IF ~encoding(f).some THEN None
    ELSE IF ~reverse_map(encoding(f).val).some THEN None
    ELSE gid_for_codepoint(f, codepoint)

\* The chain without its last step: the encoding's codepoint returned as the gid.
gid_for_unicode_codepoint_cp(f, codepoint) ==
    IF ~encoding(f).some THEN None
    ELSE LET reverse == reverse_map(encoding(f).val) IN
         IF ~reverse.some THEN None
         ELSE reverse_get(reverse.val, codepoint)

\* Font::gid_for_unicode_codepoint: Option::and_then, unfolded at each use.
gid_for_unicode_codepoint(f, codepoint) ==
    IF ~encoding(f).some THEN None
    ELSE LET reverse == reverse_map(encoding(f).val) IN
         IF ~reverse.some THEN None
         ELSE LET cp == reverse_get(reverse.val, codepoint) IN
              IF ~cp.some THEN None
              ELSE gid_for_codepoint(f, cp.val)

get_notdef_gid(f) == f.notdef

KernTable(left, right) == 3 * left - right + 1
kerning(f, left, right) ==
    IF f.kerning = "default" THEN 0 ELSE KernTable(left, right)

bbox(f) == f.bbox

\* Font::glyphs: collects glyph(i).unwrap() for i in 0 .. num_glyphs.
Font_glyphs(f) ==
    IF \E i \in 0..(num_glyphs(f) - 1) : ~glyph(f, i).some
    THEN Panic("called Option::unwrap() on a None value")
    ELSE Ok([glyphs |-> [k \in 1..num_glyphs(f) |-> glyph(f, k - 1).val]])

\* Glyphs::get
Glyphs_get(g, codepoint) ==
    IF codepoint < Len(g.glyphs) THEN Some(g.glyphs[codepoint + 1]) ELSE None

\* Inputs.
MaxGlyphs == 2
Unicode == {65, 66, 67}
Cps == {1, 65}
GidChoices == 0..MaxGlyphs
GlyphOf(g) ==
    [metrics |-> [lsb |-> <<g + 1, 0>>, advance |-> <<10 * (g + 1), g>>],
     path |-> g]
GlyphTables ==
    UNION {{[g \in 0..(n - 1) |-> IF g \in present THEN Some(GlyphOf(g)) ELSE None] :
              present \in SUBSET (0..(n - 1))} : n \in 0..MaxGlyphs}
OptionOf(S) == {None} \cup {Some(x) : x \in S}
ReverseMaps == [Unicode -> OptionOf(Cps)]
FullReverse ==
    [c \in Unicode |-> IF c = 65 THEN Some(65) ELSE IF c = 66 THEN Some(1) ELSE None]
Encodings ==
    {None, Some([reverse_map |-> None])}
    \cup {Some([reverse_map |-> Some(r)]) : r \in ReverseMaps}
GidMaps == [Cps -> OptionOf(GidChoices)]
SomeBBox == Some([origin |-> <<0, -2>>, size |-> <<10, 12>>])

MakeFont(table, enc, gidmap, notdef, kern, box) ==
    [num_glyphs |-> Cardinality(DOMAIN table), glyph |-> table, encoding |-> enc,
     gid_for_codepoint |-> gidmap, notdef |-> notdef, kerning |-> kern,
     bbox |-> box]

NoGids == [cp \in Cps |-> None]
\* Fonts for the lookups: every encoding and gid map, the other methods default.
LookupFonts ==
    {MakeFont(t, e, m, 0, "default", None) :
        t \in GlyphTables, e \in Encodings, m \in GidMaps}
\* Fonts for draw_text: a variant with an encoding, its own notdef and kerning,
\* and the variant that keeps every default.
DrawFonts ==
    {MakeFont(t, Some([reverse_map |-> Some(FullReverse)]), m, nd, "table", b) :
        t \in GlyphTables, m \in GidMaps, nd \in {0, 1}, b \in {None, SomeBBox}}
    \cup {MakeFont(t, None, NoGids, 0, "default", b) :
            t \in GlyphTables, b \in {None, SomeBBox}}

IdleFont ==
    /\ font = MakeFont(<<>>, None, NoGids, 0, "default", None)
    /\ ret = NotCalled
    /\ glyphsObj = None

InitFontVars ==
    /\ font \in LookupFonts
    /\ ret = NotCalled
    /\ glyphsObj = None

CallGidForUnicode ==
    /\ \E c \in Unicode \cup {68} :
        ret' = [kind |-> "done", op |-> "gid_for_unicode_codepoint", arg |-> c,
                out |-> gid_for_unicode_codepoint(font, c)]
    /\ UNCHANGED <<font, glyphsObj>>

CallGlyph ==
    /\ \E g \in 0..MaxGlyphs :
        ret' = [kind |-> "done", op |-> "glyph", arg |-> g, out |-> glyph(font, g)]
    /\ UNCHANGED <<font, glyphsObj>>

CallGlyphs ==
    /\ LET r == Font_glyphs(font) IN
        /\ ret' = [kind |-> "done", op |-> "glyphs", arg |-> 0, out |-> r]
        /\ glyphsObj' = IF r.kind = "ok" THEN Some(r.val) ELSE glyphsObj
    /\ UNCHANGED font

CallGlyphsGet ==
    /\ glyphsObj.some
    /\ \E i \in 0..MaxGlyphs :
        ret' = [kind |-> "done", op |-> "Glyphs::get", arg |-> i,
                out |-> Glyphs_get(glyphsObj.val, i)]
    /\ UNCHANGED <<font, glyphsObj>>

NextFont ==
    \/ CallGidForUnicode /\ UNCHANGED <<parseVars, valueVars, stateVars, ctxVars, drawVars>>
    \/ CallGlyph /\ UNCHANGED <<parseVars, valueVars, stateVars, ctxVars, drawVars>>
    \/ CallGlyphs /\ UNCHANGED <<parseVars, valueVars, stateVars, ctxVars, drawVars>>
    \/ CallGlyphsGet /\ UNCHANGED <<parseVars, valueVars, stateVars, ctxVars, drawVars>>

(***************************************************************************)
(* draw_text (lib.rs 76-118), one step per character of the text, then the *)
(* bbox lookup and the painting.  The scale factors (font_size and the     *)
(* font matrix) are the same for every path and are not modelled: a path   *)
(* is recorded with the translation it is drawn at, in font units.         *)
(***************************************************************************)
VAdd(a, b) == <<a[1] + b[1], a[2] + b[2]>>
VSub(a, b) == <<a[1] - b[1], a[2] - b[2]>>
VZero == <<0, 0>>

\* The gid of a character: the first map of the chain.
CharGid(f, c) ==
    LET r == gid_for_unicode_codepoint(f, c) IN
    IF r.some THEN r.val ELSE get_notdef_gid(f)

\* The last closure, kerning added after the position is taken.
PlaceGlyphLate(f, last, off, gid, g) ==
    LET p == VSub(off, g.metrics.lsb)
        kerned == IF last.some THEN VAdd(off, <<kerning(f, last.val, gid), 0>>)
                  ELSE off
    IN [last_gid |-> Some(gid), p |-> p, offset |-> VAdd(kerned, g.metrics.advance)]

\* The last closure of the chain, for a glyph that passed the filter_map.
PlaceGlyph(f, last, off, gid, g) ==
    LET kerned == IF last.some THEN VAdd(off, <<kerning(f, last.val, gid), 0>>)
                  ELSE off
        p == VSub(kerned, g.metrics.lsb)
    IN [last_gid |-> Some(gid), p |-> p, offset |-> VAdd(kerned, g.metrics.advance)]

MaxTextLen == 3
Texts == SeqUpTo(Unicode, MaxTextLen)

IdleDraw ==
    /\ text = <<>> /\ cursor = 1 /\ last_gid = None /\ offset = VZero
    /\ glyphs = <<>> /\ dpc = "idle" /\ surface = None

InitDrawVars ==
    /\ font \in DrawFonts
    /\ ret = NotCalled
    /\ glyphsObj = None
    /\ IdleDraw

\* The call: last_gid = None, offset = Vector::default(), the iterator at the start.
DrawTextBegin ==
    /\ dpc = "idle"
    /\ \E t \in Texts : text' = t
    /\ cursor' = 1
    /\ last_gid' = None
    /\ offset' = VZero
    /\ glyphs' = <<>>
    /\ dpc' = "layout"
    /\ UNCHANGED surface

\* A character whose glyph is absent: dropped by the filter_map.
SkipChar ==
    /\ dpc = "layout"
    /\ cursor <= Len(text)
    /\ ~glyph(font, CharGid(font, text[cursor])).some
    /\ cursor' = cursor + 1
    /\ UNCHANGED <<text, last_gid, offset, glyphs, dpc, surface>>

\* A character whose glyph is present: kerned, positioned, advanced.
PlaceChar ==
    /\ dpc = "layout"
    /\ cursor <= Len(text)
    /\ LET gid == CharGid(font, text[cursor])
           g == glyph(font, gid)
       IN /\ g.some
          /\ LET r == PlaceGlyph(font, last_gid, offset, gid, g.val) IN
              /\ last_gid' = r.last_gid
              /\ offset' = r.offset
              /\ glyphs' = Append(glyphs, [gid |-> gid, glyph |-> g.val, p |-> r.p])
    /\ cursor' = cursor + 1
    /\ UNCHANGED <<text, dpc, surface>>

\* font.bbox().expect("no bbox") on a font without a bbox.
NoBBox ==
    /\ dpc = "layout"
    /\ cursor > Len(text)
    /\ ~bbox(font).some
    /\ dpc' = "panicked"
    /\ UNCHANGED <<text, cursor, last_gid, offset, glyphs, surface>>

\* The surface, the optional baseline, and one path per collected glyph.
Paint ==
    /\ dpc = "layout"
    /\ cursor > Len(text)
    /\ bbox(font).some
    /\ LET b == bbox(font).val
           origin == <<0, -b.origin[2]>>
           drawn == [k \in 1..Len(glyphs) |->
                        [path |-> glyphs[k].glyph.path,
                         at |-> VAdd(glyphs[k].p, origin)]]
       IN \E baseline \in BOOLEAN :
           surface' = Some([width |-> offset[1], height |-> b.size[2],
                            baseline |-> IF baseline
                                         THEN Some([from |-> origin,
                                                    to |-> VAdd(origin, offset)])
                                         ELSE None,
                            paths |-> drawn])
    /\ dpc' = "done"
    /\ UNCHANGED <<text, cursor, last_gid, offset, glyphs>>

NextDraw ==
    \/ DrawTextBegin /\ UNCHANGED <<parseVars, valueVars, stateVars, ctxVars, fontVars>>
    \/ SkipChar /\ UNCHANGED <<parseVars, valueVars, stateVars, ctxVars, fontVars>>
    \/ PlaceChar /\ UNCHANGED <<parseVars, valueVars, stateVars, ctxVars, fontVars>>
    \/ NoBBox /\ UNCHANGED <<parseVars, valueVars, stateVars, ctxVars, fontVars>>
    \/ Paint /\ UNCHANGED <<parseVars, valueVars, stateVars, ctxVars, fontVars>>

(***************************************************************************)
(* The specifications.                                                     *)
(***************************************************************************)
InitParse ==
    InitParseVars /\ IdleValue /\ IdleState /\ IdleContext /\ IdleFont /\ IdleDraw
InitValue ==
    IdleParse /\ InitValueVars /\ IdleState /\ IdleContext /\ IdleFont /\ IdleDraw
InitState ==
    IdleParse /\ IdleValue /\ InitStateVars /\ IdleContext /\ IdleFont /\ IdleDraw
InitContext ==
    IdleParse /\ IdleValue /\ IdleState /\ InitContextVars /\ IdleFont /\ IdleDraw
InitFont ==
    IdleParse /\ IdleValue /\ IdleState /\ IdleContext /\ InitFontVars /\ IdleDraw
InitDraw ==
    IdleParse /\ IdleValue /\ IdleState /\ IdleContext /\ InitDrawVars

SpecParse == InitParse /\ [][NextParse]_vars
SpecValue == InitValue /\ [][NextValue]_vars
SpecState == InitState /\ [][NextState]_vars
SpecContext == InitContext /\ [][NextContext]_vars
SpecFont == InitFont /\ [][NextFont]_vars
SpecDraw == InitDraw /\ [][NextDraw]_vars

(***************************************************************************)
(* Properties of parse.                                                    *)
(***************************************************************************)
\* The dispatch table of the specification, row by row: the decoders whose row
\* lists the magic m.
TableDecoders(m) ==
    (IF m[1] = 128 /\ m[2] = 1 THEN {"Type1Font::parse_pfb"} ELSE {})
    \cup (IF m \in {<<79, 84, 84, 79>>, <<0, 1, 0, 0>>} THEN {"parse_opentype"} ELSE {})
    \cup (IF m = <<116, 114, 117, 101>> THEN {"TrueTypeFont::parse"} ELSE {})
    \cup (IF m = <<37, 33, 80, 83>> THEN {"Type1Font::parse_postscript"} ELSE {})
    \cup (IF m = <<119, 79, 70, 70>> THEN {"woff"} ELSE {})
    \cup (IF m = <<119, 79, 70, 50>> THEN {"woff2"} ELSE {})
    \cup (IF m[1] = 1 THEN {"CffFont::parse"} ELSE {})

\* The arms of the match whose pattern matches m.
MatchingArms(m) ==
    {a \in 1..8 :
        \/ a = 1 /\ IsPfb(m)
        \/ a = 2 /\ IsOpenType(m)
        \/ a = 3 /\ IsCollection(m)
        \/ a = 4 /\ IsTrueType(m)
        \/ a = 5 /\ IsPostScript(m)
        \/ a = 6 /\ IsWoff(m)
        \/ a = 7 /\ IsWoff2(m)
        \/ a = 8 /\ IsCff(m)}

RoutedTo(r) == IF r.kind = "call" THEN {r.decoder} ELSE {}
Parsed(r) == r.kind # "none"

\* C1: parse routes on the first four bytes only.  For an input of at least four
\* bytes the decoder called is exactly the one whose row of the table lists the
\* magic (none when no row does), at most one arm's pattern matches any magic,
\* and two inputs with the same first four bytes get the same route.
C1_RoutesByMagic ==
    /\ (Parsed(result) /\ Len(data) >= 4) =>
        /\ RoutedTo(result) = TableDecoders(SubSeq(data, 1, 4))
        /\ Cardinality(MatchingArms(SubSeq(data, 1, 4))) <= 1
    /\ (Parsed(twinResult) /\ Len(twin) >= 4) =>
        RoutedTo(twinResult) = TableDecoders(SubSeq(twin, 1, 4))
    /\ (Parsed(result) /\ Parsed(twinResult) /\ Len(data) >= 4) =>
        /\ SubSeq(twin, 1, 4) = SubSeq(data, 1, 4)
        /\ RoutedTo(twinResult) = RoutedTo(result)
        /\ result.kind = twinResult.kind

\* Witness of C1: a bare CFF magic `01 * * *` and a longer input with the same
\* magic, both routed to the CFF decoder.
C1_Witness ==
    /\ result.kind = "call" /\ result.decoder = "CffFont::parse"
    /\ twinResult.kind = "call" /\ twinResult.decoder = "CffFont::parse"
    /\ data[1] = 1 /\ twin # data

Unrouted(d) == Len(d) >= 4 /\ TableDecoders(SubSeq(d, 1, 4)) = {}
IsCollectionMagic(d) ==
    SubSeq(d, 1, 4) \in {<<116, 116, 99, 102>>, <<116, 121, 112, 49>>}

\* C2 as stated: an unrouted input yields no handle and an error value returned to
\* the caller, UnsupportedFormat for `ttcf` / `typ1` and UnknownMagic otherwise.
C2_ReturnsStructuredError ==
    (Parsed(result) /\ Unrouted(data)) =>
        /\ result.kind = "error"
        /\ result.error = IF IsCollectionMagic(data) THEN "UnsupportedFormat"
                          ELSE "UnknownMagic"

\* C2 amended: an unrouted input of at least four bytes yields no handle and no
\* returned value at all: parse panics, with the unimplemented!() panic for
\* `ttcf` / `typ1` and with the "unknown magic" panic for every other magic.
C2_PanicsOnUnrouted ==
    (Parsed(result) /\ Unrouted(data)) =>
        /\ result.kind = "panic"
        /\ result.msg = IF IsCollectionMagic(data) THEN "not implemented"
                        ELSE "unknown magic"

\* Witness of C2: the magic DE AD BE EF has been parsed and ended in the
\* "unknown magic" panic.
C2_Witness ==
    /\ data = <<222, 173, 190, 239>>
    /\ result = Panic("unknown magic")

(***************************************************************************)
(* Properties of Value.                                                    *)
(***************************************************************************)
Converted(op) == conv.kind = "done" /\ conv.op = op

\* C6: to_int(Int(i)) = i; to_uint(Int(i)) = i for i >= 0; to_int and to_uint of
\* a Float, and to_uint of a negative Int, fail (a panic) and give no number.
C6_IntegerIdentity ==
    /\ (Converted("to_int") /\ val.tag = "Int") => conv.out = Ok(val.i)
    /\ (Converted("to_uint") /\ val.tag = "Int" /\ val.i >= 0) => conv.out = Ok(val.i)
    /\ ((Converted("to_int") \/ Converted("to_uint")) /\ val.tag = "Float") =>
        conv.out = Panic("tried to cast a float to int")
    /\ (Converted("to_uint") /\ val.tag = "Int" /\ val.i < 0) =>
        conv.out.kind = "panic"

\* Witness of C6: to_int was applied to the float 2.0, whose value is integral,
\* and failed.
C6_Witness ==
    /\ Converted("to_int")
    /\ val = ValueFloat(Dyadic(1, 1))
    /\ conv.out.kind = "panic"

ConvertedToFloat == Converted("to_float") \/ Converted("into_f32")
FitsF32(i) ==
    LET d == Exact(i)
        a == IF d.m < 0 THEN -d.m ELSE d.m
    IN a < Pow2(24)
Within2Pow24(i) == -Pow2(24) <= i /\ i <= Pow2(24)

\* C7 as stated: for every 32-bit integer i, to_float(Int(i)) denotes exactly i.
C7_LosslessForEveryI32 ==
    (ConvertedToFloat /\ val.tag = "Int") => conv.out.val = Exact(val.i)

\* C7 amended: to_float(Int(i)) denotes exactly i precisely when i fits a 24-bit
\* significand, which covers every i with |i| <= 2^24; on that range distinct
\* integers convert to distinct floats.  Other integers are rounded.
C7_LosslessUpTo2Pow24 ==
    (ConvertedToFloat /\ val.tag = "Int") =>
        /\ (conv.out.val = Exact(val.i)) <=> FitsF32(val.i)
        /\ Within2Pow24(val.i) =>
            /\ conv.out.val = Exact(val.i)
            /\ \A j \in IntInputs :
                (Within2Pow24(j) /\ j # val.i) => to_float(ValueInt(j)) # conv.out.val

\* Witness of C7: 2^24 + 1 has been converted and came out as 2^24.
C7_Witness ==
    /\ Converted("to_float")
    /\ val = ValueInt(16777217)
    /\ conv.out.val = Exact(16777216)

(***************************************************************************)
(* Properties of State.                                                    *)
(***************************************************************************)
\* C8: in every state reachable from State::new() by push, pop and args the
\* operand stack holds at most 48 entries, a push onto 48 entries being refused.
C8_StackAtMost48 ==
    /\ Len(state.stack) <= 48
    /\ (lastOp.kind = "done" /\ lastOp.op = "push") => lastOp.before < 48

(***************************************************************************)
(* Properties of Context.                                                  *)
(***************************************************************************)
\* Whether the number idx + bias lies in 0 .. n-1, computed without leaving i32.
SumInRange(idx, bias, n) ==
    IF idx >= 0 /\ bias >= 0 THEN idx <= (n - 1) - bias
    ELSE IF idx < 0 /\ bias < 0 THEN FALSE
    ELSE idx + bias >= 0 /\ idx + bias < n

LookedUpColl == IF lookup.fn = "subr" THEN ctx.subrs ELSE ctx.global_subrs
LookedUpBias == IF lookup.fn = "subr" THEN ctx.subr_bias ELSE ctx.global_subr_bias

\* C9: subr(idx) and global_subr(idx) return exactly the body at position
\* idx + bias when 0 <= idx + bias < count, and fail fatally in every other case
\* (negative sum, sum >= count, the `()` collection).
C9_BiasedLookup ==
    lookup.kind = "done" =>
        IF ~LookedUpColl.unit
           /\ SumInRange(lookup.idx, LookedUpBias, Len(LookedUpColl.items))
        THEN lookup.out = Ok(LookedUpColl.items[lookup.idx + LookedUpBias + 1])
        ELSE lookup.out.kind = "panic"

(***************************************************************************)
(* Properties of Font and Glyphs.                                          *)
(***************************************************************************)
CalledGidForUnicode == ret.kind = "done" /\ ret.op = "gid_for_unicode_codepoint"
GidsInRange(f) ==
    \A cp \in DOMAIN f.gid_for_codepoint :
        f.gid_for_codepoint[cp].some => f.gid_for_codepoint[cp].val < f.num_glyphs

\* C3 as stated: whatever the variant supplies, gid_for_unicode_codepoint(c) is
\* None or a glyph id below num_glyphs().
C3_GidBelowNumGlyphs ==
    (CalledGidForUnicode /\ ret.out.some) => ret.out.val < font.num_glyphs

\* C3 amended: gid_for_unicode_codepoint(c) is None or a gid that the variant's
\* gid_for_codepoint returns for some codepoint; it is below num_glyphs() for
\* every font whose gid_for_codepoint yields only gids below num_glyphs().
C3_GidFromGidForCodepoint ==
    (CalledGidForUnicode /\ ret.out.some) =>
        /\ \E cp \in DOMAIN font.gid_for_codepoint : font.gid_for_codepoint[cp] = ret.out
        /\ GidsInRange(font) => ret.out.val < font.num_glyphs

\* Witness of C3: a font whose gid_for_codepoint stays below num_glyphs() has
\* answered a lookup with a gid.
C3_Witness ==
    /\ CalledGidForUnicode /\ ret.out.some
    /\ GidsInRange(font)
    /\ ret.out.val = 1 /\ font.num_glyphs = 2

\* C4: gid_for_unicode_codepoint(c) is gid_for_codepoint(cp) for the entry cp of
\* c in the reverse map of the font's encoding, and None when there is no
\* encoding, no reverse map, no entry for c, or no gid for cp; a font that keeps
\* the default encoding and gid_for_codepoint answers None for every codepoint.
C4_Composition ==
    CalledGidForUnicode =>
        /\ IF /\ font.encoding.some
              /\ font.encoding.val.reverse_map.some
              /\ ret.arg \in DOMAIN font.encoding.val.reverse_map.val
              /\ font.encoding.val.reverse_map.val[ret.arg].some
           THEN LET cp == font.encoding.val.reverse_map.val[ret.arg].val IN
                ret.out = IF cp \in DOMAIN font.gid_for_codepoint
                          THEN font.gid_for_codepoint[cp] ELSE None
           ELSE ret.out = None
        /\ (~font.encoding.some /\ font.gid_for_codepoint = NoGids) => ret.out = None

\* Witness of C4: codepoint 66 was looked up through a reverse map that sends it
\* to the encoding's codepoint 1, and a gid came back.
C4_Witness ==
    /\ CalledGidForUnicode /\ ret.arg = 66 /\ ret.out.some
    /\ font.encoding.val.reverse_map.val[66] = Some(1)
    /\ font.gid_for_codepoint[65] # font.gid_for_codepoint[1]

\* C5: a font with an absent glyph stays usable: glyphs() completes and
\* Glyphs::get(i) yields glyph i for every i whose glyph is present.
C5_GlyphsCompletes ==
    (ret.kind = "done" /\ ret.op = "glyphs") =>
        /\ ret.out.kind = "ok"
        /\ \A i \in 0..(font.num_glyphs - 1) :
            font.glyph[i].some => Glyphs_get(ret.out.val, i) = font.glyph[i]

(***************************************************************************)
(* Properties of draw_text.                                                *)
(***************************************************************************)
\* The gids of the first n characters of t whose glyph is present, in text order.
RECURSIVE DrawnGids(_, _)
DrawnGids(t, n) ==
    IF n = 0 THEN <<>>
    ELSE LET r == gid_for_unicode_codepoint(font, t[n])
             gid == IF r.some THEN r.val ELSE font.notdef
         IN IF gid \in DOMAIN font.glyph /\ font.glyph[gid].some
            THEN Append(DrawnGids(t, n - 1), gid)
            ELSE DrawnGids(t, n - 1)

MetricsOf(gid) == font.glyph[gid].val.metrics

\* The sum of the advances of the first n drawn glyphs.
RECURSIVE SumAdvance(_, _)
SumAdvance(gids, n) ==
    IF n = 0 THEN VZero
    ELSE VAdd(SumAdvance(gids, n - 1), MetricsOf(gids[n]).advance)

\* The sum of the kernings of the consecutive pairs among the first n drawn glyphs.
RECURSIVE SumKerning(_, _)
SumKerning(gids, n) ==
    IF n <= 1 THEN 0
    ELSE SumKerning(gids, n - 1)
         + (IF font.kerning = "default" THEN 0 ELSE KernTable(gids[n - 1], gids[n]))

\* C10: the drawn glyphs are those of the characters read so far whose glyph is
\* present (unmapped characters taking the notdef gid), in text order; the k-th
\* is placed at (advances of 1..k-1) + (kernings of the consecutive drawn pairs
\* up to k) - lsb_k; the offset is the sum of all advances and kernings; and the
\* paths are painted in that order at those positions, moved by the origin.
C10_Layout ==
    dpc \in {"layout", "done", "panicked"} =>
        LET gids == [k \in 1..Len(glyphs) |-> glyphs[k].gid] IN
        /\ gids = DrawnGids(text, cursor - 1)
        /\ \A k \in 1..Len(glyphs) :
            glyphs[k].p = VSub(VAdd(SumAdvance(gids, k - 1), <<SumKerning(gids, k), 0>>),
                               MetricsOf(gids[k]).lsb)
        /\ offset = VAdd(SumAdvance(gids, Len(gids)), <<SumKerning(gids, Len(gids)), 0>>)
        /\ dpc = "done" =>
            /\ cursor = Len(text) + 1
            /\ Len(surface.val.paths) = Len(glyphs)
            /\ \A k \in 1..Len(glyphs) :
                /\ surface.val.paths[k].path = font.glyph[gids[k]].val.path
                /\ surface.val.paths[k].at =
                       VAdd(glyphs[k].p, <<0, -font.bbox.val.origin[2]>>)

\* Witness of C10: the text A B A has been drawn with the B skipped (its glyph
\* is absent) and the two A glyphs placed, with a kerning between them.
C10_Witness ==
    /\ dpc = "done"
    /\ text = <<65, 66, 65>> /\ Len(glyphs) = 2
    /\ font.kerning = "table"
    /\ KernTable(glyphs[1].gid, glyphs[2].gid) # 0
    /\ glyphs[2].p # VSub(glyphs[1].glyph.metrics.advance, glyphs[2].glyph.metrics.lsb)

====
